---- MODULE Spec2Model ----
(***************************************************************************)
(* Model of lib/sqlalchemy_sandbox.py: one SQLAlchemy session bound to an  *)
(* in-memory SQLite engine, the `students` table, and the statements the   *)
(* script issues against it.                                               *)
(*                                                                         *)
(* `database` is the committed content of the table; `session` is the      *)
(* content the session's own queries return: the rows of its open          *)
(* transaction, with pending object changes flushed (every Query           *)
(* autoflushes before it runs).  session.commit() makes `database` equal   *)
(* to `session`.  A table is the sequence of its rows in rowid order.      *)
(***************************************************************************)
EXTENDS Integers, Sequences, FiniteSets, TLC

VARIABLES database, session, enrolled_default, clock, stmt, query, error

vars == <<database, session, enrolled_default, clock, stmt, query, error>>

\* Bounds of the model.
MaxOps == 6
MaxRows == 3
MaxBatch == 2

\* ------------------------------------------------------------------------
\* The Student objects the statements are applied to.
\* Birthdays are kept as the year of the datetime.

student1 == [name |-> "Alice", email |-> "alice@school.com",
             grade |-> 9, birthday |-> 1996]

student2 == [name |-> "Alan Turing", email |-> "alan.turing@sherborne.edu",
             grade |-> 11, birthday |-> 1912]

student3 == [name |-> "Mark Tylor", email |-> "mark.tylor@moringaschool.com",
             grade |-> 7, birthday |-> 2000]

Students == {student1, student2, student3}

Names == {s.name : s \in Students}

\* student3 is constructed and never saved.
Saved == Students \ {student3}

\* Lists of at most MaxBatch objects handed to bulk_save_objects.
Batches == UNION {[1..n -> Saved] : n \in 1..MaxBatch}

\* ------------------------------------------------------------------------
\* Python's None and the SQL values a one-column row carries.

None == [none |-> TRUE]

Scalar(n) == [value |-> n]

\* The time datetime.now() returned when the class body of Student ran.
ClassDefinitionTime == 0

\* ------------------------------------------------------------------------
\* Queries.  A criterion is "all" (no filter) or a name to compare with.

NoFilter == [kind |-> "all"]

NameEq(n) == [kind |-> "name_eq", name |-> n]

Criteria == {NoFilter} \cup {NameEq(n) : n \in Names}

Matches(row, crit) == crit.kind = "all" \/ row.name = crit.name

RECURSIVE Filter(_, _)
Filter(rows, crit) ==
    IF rows = <<>> THEN <<>>
    ELSE IF Matches(Head(rows), crit)
         THEN <<Head(rows)>> \o Filter(Tail(rows), crit)
         ELSE Filter(Tail(rows), crit)

QueryAll(rows) == Filter(rows, NoFilter)

QueryFirst(rows, crit) ==
    IF Filter(rows, crit) = <<>> THEN None ELSE Head(Filter(rows, crit))

RECURSIVE SumGrades(_)
SumGrades(rows) ==
    IF rows = <<>> THEN 0 ELSE Head(rows).grade + SumGrades(Tail(rows))

\* Faulty variant of func_count: COUNT(DISTINCT name) instead of COUNT(id).
func_count_names(rows) ==
    <<Scalar(Cardinality({rows[i].name : i \in 1..Len(rows)}))>>

\* session.query(func.count(Student.id)).first(): a one-column row.
func_count(rows) == <<Scalar(Len(rows))>>

\* Faulty variant of func_sum: 0 instead of NULL over no row.
func_sum_zero(rows) == <<Scalar(SumGrades(rows))>>

\* session.query(func.sum(Student.grade)).first(): SUM over no row is NULL.
func_sum(rows) ==
    IF rows = <<>> THEN <<None>> ELSE <<Scalar(SumGrades(rows))>>

Ids(rows) == {rows[i].id : i \in 1..Len(rows)}

\* ------------------------------------------------------------------------
\* Writes.

\* Faulty variant of NextId: the number of rows plus one.
NextId_count(rows) == Len(rows) + 1

\* `id INTEGER PRIMARY KEY` in SQLite: one more than the largest rowid in
\* the table, 1 in an empty table.
NextId(rows) ==
    IF rows = <<>> THEN 1
    ELSE (CHOOSE m \in Ids(rows) : \A k \in Ids(rows) : k <= m) + 1

\* The INSERT of one object; enrolled_date is not given, so the column
\* default applies.
InsertRow(rows, obj, default) ==
    Append(rows, [id |-> NextId(rows), name |-> obj.name,
                  email |-> obj.email, grade |-> obj.grade,
                  birthday |-> obj.birthday, enrolled_date |-> default])

RECURSIVE bulk_save_objects(_, _, _)
bulk_save_objects(rows, objs, default) ==
    IF objs = <<>> THEN rows
    ELSE bulk_save_objects(InsertRow(rows, Head(objs), default),
                           Tail(objs), default)

\* Faulty variant of commit: only the first row of the transaction is committed.
commit_first(rows) == IF rows = <<>> THEN <<>> ELSE <<Head(rows)>>

\* session.commit(): the whole transaction becomes the committed table.
commit(rows) == rows

\* Faulty variant of IncrementGrade: the increment applied twice.
IncrementGradeTwice(row) == [row EXCEPT !.grade = row.grade + 2]

IncrementGrade(row) == [row EXCEPT !.grade = row.grade + 1]

\* Faulty variant of query_update: the WHERE clause of the UPDATE is dropped.
query_update_all(rows, crit) ==
    [i \in 1..Len(rows) |-> [rows[i] EXCEPT !.grade = rows[i].grade + 1]]

\* Query.update({Student.grade: Student.grade + 1}) on the rows the query
\* selects.
RECURSIVE query_update(_, _)
query_update(rows, crit) ==
    IF rows = <<>> THEN <<>>
    ELSE <<IF Matches(Head(rows), crit)
           THEN IncrementGrade(Head(rows)) ELSE Head(rows)>>
         \o query_update(Tail(rows), crit)

\* for student in session.query(Student): student.grade += 1
update_loop(rows) == [i \in 1..Len(rows) |-> IncrementGrade(rows[i])]

\* Faulty variant of session_delete: DELETE by the object's name, not its key.
session_delete_by_name(rows, obj) ==
    SelectSeq(rows, LAMBDA r : r.name /= obj.name)

\* session.delete(obj): DELETE of the row with the object's primary key.
RECURSIVE session_delete(_, _)
session_delete(rows, obj) ==
    IF rows = <<>> THEN <<>>
    ELSE IF Head(rows).id = obj.id
         THEN session_delete(Tail(rows), obj)
         ELSE <<Head(rows)>> \o session_delete(Tail(rows), obj)

\* Query.delete(): DELETE of the rows the query selects.
RECURSIVE query_delete(_, _)
query_delete(rows, crit) ==
    IF rows = <<>> THEN <<>>
    ELSE IF Matches(Head(rows), crit)
         THEN query_delete(Tail(rows), crit)
         ELSE <<Head(rows)>> \o query_delete(Tail(rows), crit)

\* ------------------------------------------------------------------------
\* The script.

Init ==
    /\ database = <<>>
    /\ session = <<>>
    /\ enrolled_default = ClassDefinitionTime
    /\ clock = 1
    /\ stmt = "Session"
    /\ query = NoFilter
    /\ error = "none"

Running == error = "none" /\ clock <= MaxOps

BulkSaveObjects(objs) ==
    /\ Running
    /\ Len(session) + Len(objs) <= MaxRows
    /\ session' = bulk_save_objects(session, objs, enrolled_default)
    /\ stmt' = "bulk_save_objects"
    /\ clock' = clock + 1
    /\ UNCHANGED <<database, enrolled_default, query, error>>

Commit ==
    /\ Running
    /\ database' = commit(session)
    /\ stmt' = "commit"
    /\ clock' = clock + 1
    /\ UNCHANGED <<session, enrolled_default, query, error>>

UpdateLoop ==
    /\ Running
    /\ session' = update_loop(session)
    /\ stmt' = "update_loop"
    /\ query' = NoFilter
    /\ clock' = clock + 1
    /\ UNCHANGED <<database, enrolled_default, error>>

QueryUpdate(crit) ==
    /\ Running
    /\ session' = query_update(session, crit)
    /\ stmt' = "query_update"
    /\ query' = crit
    /\ clock' = clock + 1
    /\ UNCHANGED <<database, enrolled_default, error>>

\* query = ...filter(Student.name == n); mark = query.first();
\* session.delete(mark); session.commit()
DeleteObject(n) ==
    /\ Running
    /\ query' = NameEq(n)
    /\ stmt' = "session_delete"
    /\ clock' = clock + 1
    /\ LET mark == QueryFirst(session, NameEq(n)) IN
         IF mark = None
         THEN /\ error' = "UnmappedInstanceError"
              /\ UNCHANGED <<database, session>>
         ELSE /\ session' = session_delete(session, mark)
              /\ database' = commit(session_delete(session, mark))
              /\ error' = error
    /\ UNCHANGED enrolled_default

\* Faulty variant of QueryDelete: the DELETE is followed by a commit.
QueryDeleteAndCommit(n) ==
    /\ error = "none" /\ clock <= MaxOps
    /\ query' = NameEq(n)
    /\ session' = query_delete(session, NameEq(n))
    /\ database' = query_delete(session, NameEq(n))
    /\ stmt' = "query_delete"
    /\ clock' = clock + 1
    /\ UNCHANGED <<enrolled_default, error>>

\* query = ...filter(Student.name == n); query.delete()
QueryDelete(n) ==
    /\ Running
    /\ query' = NameEq(n)
    /\ session' = query_delete(session, NameEq(n))
    /\ stmt' = "query_delete"
    /\ clock' = clock + 1
    /\ UNCHANGED <<database, enrolled_default, error>>

Next ==
    \/ \E objs \in Batches : BulkSaveObjects(objs)
    \/ Commit
    \/ UpdateLoop
    \/ \E crit \in Criteria : QueryUpdate(crit)
    \/ \E n \in Names : DeleteObject(n)
    \/ \E n \in Names : QueryDelete(n)

Spec == Init /\ [][Next]_vars

\* ------------------------------------------------------------------------
\* Properties.

NewRows(old, new) == {new[i] : i \in (Len(old) + 1)..Len(new)}

Rows(rows) == {rows[i] : i \in 1..Len(rows)}

Count(rows) == func_count(rows)[1].value

DeleteStep == stmt' \in {"session_delete", "query_delete"}

\* C1 (as claimed): deleting, by object or by predicate, a record that is
\* not in the table raises no error and leaves every record unchanged.
C1_DeleteOfMissingRecordIsNoOp ==
    [][(DeleteStep /\ QueryFirst(session, query') = None)
         => (error' = "none" /\ session' = session /\ database' = database)]_vars

\* C2: the delete of an object removes exactly the row of that object: the
\* count drops by one, every other row is kept as it was, no query returns
\* the row any more, the script's lookup returns no row of that id (None
\* when the object was the only match), and the removal is committed.
C2_DeleteByIdentity ==
    [][(stmt' = "session_delete" /\ error' = "none") =>
         LET mark == QueryFirst(session, query') IN
           /\ Count(session') = Count(session) - 1
           /\ Rows(session') = Rows(session) \ {mark}
           /\ \A i \in 1..Len(session) :
                session[i].id /= mark.id => session[i] \in Rows(session')
           /\ \A crit \in Criteria :
                mark.id \notin Ids(Filter(session', crit))
           /\ QueryFirst(session', query') /= mark
           /\ (Len(Filter(session, query')) = 1
                 => QueryFirst(session', query') = None)
           /\ mark.id \notin Ids(database')]_vars

C2_Witness ==
    /\ stmt = "session_delete"
    /\ error = "none"
    /\ Len(session) = 2
    /\ database = session
    /\ QueryFirst(session, query) = None

\* C3 (as claimed): between bulk_save_objects and commit no query of the
\* session returns a saved record.
C3_PendingRecordsInvisible ==
    [][stmt' = "bulk_save_objects"
         => (QueryAll(session') = QueryAll(session)
             /\ func_count(session') = func_count(session))]_vars

\* C3 (amended): a saved record is in the committed table only after a
\* commit, and a commit commits all pending records together; before the
\* commit the session's own queries already return them.
C3_CommitPublishesAll ==
    [][/\ stmt' = "bulk_save_objects" =>
            /\ database' = database
            /\ Len(QueryAll(session')) > Len(QueryAll(session))
            /\ SubSeq(QueryAll(session'), 1, Len(session)) = QueryAll(session)
       /\ stmt' = "commit" =>
            /\ database' = session
            /\ QueryAll(session') = QueryAll(session)]_vars

C3_Witness ==
    /\ stmt = "commit"
    /\ clock = 3
    /\ Len(database) = 2

\* C4 (as claimed): after either form of delete the removal is committed.
C4_BothDeletesCommit ==
    [][(DeleteStep /\ error' = "none")
         => \A k \in Ids(session) \ Ids(session') : k \notin Ids(database')]_vars

\* C4 (amended): the delete of an object, with the commit that follows
\* it, leaves the removal committed and nothing pending; Query.delete()
\* leaves the committed table as it was, its removal pending.
C4_OnlyObjectDeleteCommits ==
    [][/\ (stmt' = "session_delete" /\ error' = "none") =>
            /\ database' = session'
            /\ Ids(session) \ Ids(session') /= {}
            /\ (Ids(session) \ Ids(session')) \cap Ids(database') = {}
       /\ stmt' = "query_delete" =>
            /\ database' = database
            /\ \A i \in 1..Len(session') : ~Matches(session'[i], query')
            /\ Rows(session') = {r \in Rows(session) : ~Matches(r, query')}]_vars

C4_Witness ==
    /\ stmt = "query_delete"
    /\ Len(database) = 2
    /\ Len(session) = 1
    /\ Ids(session) \subseteq Ids(database)

\* C5 (as claimed): once something is committed, count() is the number of
\* committed records in every state.
C5_CountIsCommittedCount ==
    database /= <<>> => Count(session) = Len(database)

\* C5 (amended): count() is the number of records the session's queries
\* return, and is the number of committed records right after every commit.
C5_CountIsSessionCount ==
    /\ Count(session) = Cardinality(Ids(QueryAll(session)))
    /\ (error = "none" /\ stmt \in {"commit", "session_delete"})
         => Count(session) = Cardinality(Ids(database))

C5_Witness ==
    /\ stmt = "commit"
    /\ Count(session) = 3
    /\ \E i, j \in 1..Len(session) : i /= j /\ session[i].name = session[j].name

\* C6: an update adds 1 to the grade of every record the query selects and
\* changes nothing else; the per-object loop does so for every record.
C6_UpdateFrame ==
    [][/\ stmt' = "query_update" =>
            /\ Len(session') = Len(session)
            /\ \A i \in 1..Len(session) :
                 IF query' = NoFilter \/ session[i].name = query'.name
                 THEN session'[i] = [session[i] EXCEPT !.grade = @ + 1]
                 ELSE session'[i] = session[i]
       /\ stmt' = "update_loop" =>
            /\ Len(session') = Len(session)
            /\ \A i \in 1..Len(session) :
                 session'[i] = [session[i] EXCEPT !.grade = @ + 1]]_vars

C6_Witness ==
    /\ stmt = "query_update"
    /\ query = NameEq("Alice")
    /\ \E i, j \in 1..Len(session) :
         /\ session[i].name = "Alice" /\ session[i].grade = 10
         /\ session[j].name = "Alan Turing" /\ session[j].grade = 11

\* C7 (as claimed): an inserted record gets an id that no record has had
\* before; in particular none that a committed record holds.
C7_IdsFromMonotonicCounter ==
    [][stmt' = "bulk_save_objects"
         => \A r \in NewRows(session, session') :
              r.id \notin (Ids(session) \cup Ids(database))]_vars

UniqueIds(rows) == Cardinality(Ids(rows)) = Len(rows)

SameRecord(r, q) ==
    r.id = q.id /\ r.name = q.name /\ r.email = q.email
                /\ r.birthday = q.birthday

\* C7 (amended): no two records of the table share an id; an inserted
\* record gets the id one greater than the largest id in the table, 1 in
\* an empty table (so it may repeat the id of a record deleted before); no
\* statement changes the id of a record that stays in the table.
C7_IdsUniqueAndStable ==
    /\ [](UniqueIds(session) /\ UniqueIds(database))
    /\ [][/\ stmt' = "bulk_save_objects" =>
               /\ SubSeq(session', 1, Len(session)) = session
               /\ \A r \in NewRows(session, session') :
                    \A k \in Ids(session) : r.id > k
               /\ \A i \in (Len(session) + 1)..Len(session') :
                    session'[i].id = IF i = 1 THEN 1 ELSE session'[i - 1].id + 1
          /\ stmt' /= "bulk_save_objects" =>
               \A q \in Rows(session') :
                 \E r \in Rows(session) : SameRecord(r, q)]_vars

C7_Witness ==
    /\ stmt = "bulk_save_objects"
    /\ \E r \in Rows(session) : \E q \in Rows(database) :
         r.id = q.id /\ r.name /= q.name

Scenario(rows, g1, g2) ==
    /\ Len(rows) = 2
    /\ rows[1].name = "Alice" /\ rows[1].grade = g1
    /\ rows[2].name = "Alan Turing" /\ rows[2].grade = g2

\* C8: with Alice (grade 9) and Alan (student2, grade 11) saved, count()
\* is 2 and sum(grade) is 20; adding 1 to all grades makes them 10 and 12;
\* deleting by the name of Alan then leaves count() 1 and
\* all() = [Alice (grade 10)].
C8_Scenario ==
    /\ [](Scenario(session, 9, 11) =>
            /\ func_count(session) = <<Scalar(2)>>
            /\ func_sum(session) = <<Scalar(20)>>)
    /\ [][/\ (/\ Scenario(session, 9, 11)
              /\ \/ stmt' = "update_loop"
                 \/ stmt' = "query_update" /\ query' = NoFilter)
             => Scenario(session', 10, 12)
          /\ (/\ Scenario(session, 10, 12)
              /\ stmt' = "query_delete" /\ query' = NameEq("Alan Turing"))
             => /\ func_count(session') = <<Scalar(1)>>
                /\ QueryAll(session') = <<session[1]>>
                /\ session[1].name = "Alice" /\ session[1].grade = 10]_vars

C8_Witness ==
    /\ stmt = "query_delete"
    /\ query = NameEq("Alan Turing")
    /\ clock = 5
    /\ Scenario(database, 9, 11)
    /\ Len(session) = 1
    /\ session[1].name = "Alice" /\ session[1].grade = 10

RECURSIVE GradeTotal(_, _)
GradeTotal(rows, n) ==
    IF n = 0 THEN 0 ELSE rows[n].grade + GradeTotal(rows, n - 1)

\* C9 (as claimed): sum(grade) is the sum of the grades of the committed
\* records in every state, and the empty-table value when none is committed.
C9_SumIsCommittedSum ==
    func_sum(session) =
        IF database = <<>> THEN <<None>>
        ELSE <<Scalar(GradeTotal(database, Len(database)))>>

\* C9 (amended): sum(grade) is the sum of the grades of the records the
\* session's queries return, None over an empty table, and the sum over
\* the committed records right after every commit.
C9_SumIsSessionSum ==
    /\ session = <<>> => func_sum(session) = <<None>>
    /\ session /= <<>> =>
         func_sum(session) = <<Scalar(GradeTotal(session, Len(session)))>>
    /\ (error = "none" /\ stmt \in {"commit", "session_delete"}
          /\ database /= <<>>)
         => func_sum(session) = <<Scalar(GradeTotal(database, Len(database)))>>

C9_Witness ==
    /\ stmt = "query_update"
    /\ database /= <<>>
    /\ session /= <<>>
    /\ func_sum(session) /= func_sum(database)

\* C10 (as claimed): the enrolled_date of a saved record is the time at
\* which it was saved, not the time the class was defined.
C10_EnrolledDateIsCreationTime ==
    [][stmt' = "bulk_save_objects"
         => \A r \in NewRows(session, session') :
              r.enrolled_date = clock /\ r.enrolled_date /= ClassDefinitionTime]_vars

====
